---- MODULE Spec2Model ----
(***************************************************************************)
(* Model of huffman.py: the HuffmanCompressor codec (scalar quantization,  *)
(* modular delta transform, Huffman tree built with heapq, bit packing     *)
(* with a padding header) and of the way main.py / runner.py call it.      *)
(*                                                                         *)
(* Bit strings ("0101") are sequences over {0,1}; a bytearray is a         *)
(* sequence of integers 0..255; a dict is a function, and the frequency    *)
(* dict, whose iteration order the heap depends on, is a sequence of       *)
(* <<key, count>> entries in insertion order.                              *)
(***************************************************************************)
EXTENDS Integers, Sequences, FiniteSets, TLC

VARIABLES
    codes,             \* self.codes: symbol -> bit string
    reverse_mapping,   \* self.reverse_mapping: bit string -> symbol
    pc,                \* where the calling script is
    calls,             \* number of compress_data calls made on the instance
    pixels,            \* compress_data argument
    q,                 \* quantization_factor argument
    pixels_to_encode,  \* compress_data local: the delta sequence
    encoded_text,      \* compress_data local: the concatenated codes
    byte_data,         \* compress_data result / decompress_data argument
    frequency,         \* compress_data result / decompress_data argument
    tampered,          \* byte_data is no longer what the encoder returned
    unpacked,          \* decompress_data local: encoded_text after stripping
    decoded_deltas,    \* decompress_data local
    current_code,      \* decompress_data local: accumulator after the loop
    restored_pixels,   \* decompress_data result
    outcome            \* "none", "ok", or the exception the call raised

vars == <<codes, reverse_mapping, pc, calls, pixels, q, pixels_to_encode,
          encoded_text, byte_data, frequency, tampered, unpacked,
          decoded_deltas, current_code, restored_pixels, outcome>>

----------------------------------------------------------------------------
(* Bounds of the model *)

MaxLen == 3        \* longest sample sequence
MaxQ == 3          \* largest quantization factor tried (0..MaxQ)
MaxBits == 9       \* longest bit string handed to the packer on its own
MaxHeader == 9     \* largest header byte a foreign / damaged buffer carries
MaxCalls == 2      \* compress_data calls on one instance
MaxTreeLen == 6    \* longest sample sequence of the single-call runs

Samples == {0, 128, 255}

None == -1         \* HuffmanNode.char of an internal node

----------------------------------------------------------------------------
(* Generic helpers *)

Max(a, b) == IF a >= b THEN a ELSE b

SeqsUpTo(S, n) == UNION {[1..k -> S] : k \in 0..n}

Zeros(n) == [i \in 1..n |-> 0]

RECURSIVE Join(_)
Join(ss) == IF ss = <<>> THEN <<>> ELSE Head(ss) \o Join(Tail(ss))

\* numpy .astype(np.uint8) of an integer
U8(x) == x % 256

----------------------------------------------------------------------------
(* Bit <-> byte conversions *)

\* int(byte, 2): most significant bit first
RECURSIVE Int2(_)
Int2(bits) ==
    IF bits = <<>> THEN 0
    ELSE 2 * Int2(SubSeq(bits, 1, Len(bits) - 1)) + bits[Len(bits)]

\* "{0:08b}".format(n) and f"{byte:08b}" for 0 <= n <= 255
Bin8(n) == [i \in 1..8 |-> (n \div (2 ^ (8 - i))) % 2]

\* s[:-n] of Python for n >= 0: -0 is 0, so s[:-0] is s[:0], the empty string
StripTailHead(s, n) == SubSeq(s, n + 1, Len(s))

StripTail(s, n) ==
    IF n = 0 THEN <<>> ELSE SubSeq(s, 1, Max(Len(s) - n, 0))

ExtraPaddingMod8(n) == (8 - (n % 8)) % 8

ExtraPadding(n) == 8 - (n % 8)

\* _get_encoded_bytes
GetEncodedBytes(text) ==
    LET extra_padding == ExtraPadding(Len(text))
        padded == Bin8(extra_padding) \o text \o Zeros(extra_padding)
    IN  [k \in 1..((Len(padded) + 7) \div 8) |->
            Int2(SubSeq(padded, 8 * (k - 1) + 1,
                        IF 8 * k <= Len(padded) THEN 8 * k ELSE Len(padded)))]

\* decompress_data lines 118-122: the bits of every byte, header included
AllBits(bd) == Join([k \in 1..Len(bd) |-> Bin8(bd[k])])

\* decompress_data lines 123-125; int("", 2) raises ValueError
Unpack(bd) ==
    LET bit_string == AllBits(bd)
    IN  IF bit_string = <<>>
        THEN [outcome |-> "ValueError", text |-> <<>>]
        ELSE [outcome |-> "ok",
              text |-> StripTail(SubSeq(bit_string, 9, Len(bit_string)),
                                 Int2(SubSeq(bit_string, 1, 8)))]

----------------------------------------------------------------------------
(* Quantization and delta transform *)

\* compress_data lines 71-72: (pixels // quantization_factor).astype(uint8)
Quantize(px, Q) ==
    IF Q > 1 THEN [i \in 1..Len(px) |-> U8(px[i] \div Q)] ELSE px

\* decompress_data lines 140-145: multiply as float32, clip to 0..255
Dequantize(px, Q) ==
    IF Q > 1
    THEN [i \in 1..Len(px) |->
            LET p == px[i] * Q
            IN  IF p < 0 THEN 0 ELSE IF p > 255 THEN 255 ELSE p]
    ELSE px

DeltaSeedFirst(px) ==
    [i \in 1..Len(px) |-> U8(px[i] - (IF i = 1 THEN px[1] ELSE px[i - 1]))]

\* compress_data lines 84-87: np.diff(pixels, prepend=0).astype(np.uint8)
DeltaForward(px) ==
    [i \in 1..Len(px) |-> U8(px[i] - (IF i = 1 THEN 0 ELSE px[i - 1]))]

\* decompress_data lines 136-137: np.cumsum(delta_array, dtype=np.uint8)
RECURSIVE CumSum(_)
CumSum(d) ==
    IF d = <<>> THEN <<>>
    ELSE LET front == CumSum(SubSeq(d, 1, Len(d) - 1))
         IN  Append(front,
                    U8((IF front = <<>> THEN 0 ELSE front[Len(front)])
                       + d[Len(d)]))

----------------------------------------------------------------------------
(* Frequency dict, heap and tree *)

\* _make_frequency_dict: dict(Counter(pixels)), keys in first-occurrence order
RECURSIVE MakeFrequencyDict(_)
MakeFrequencyDict(px) ==
    IF px = <<>> THEN <<>>
    ELSE LET front == MakeFrequencyDict(SubSeq(px, 1, Len(px) - 1))
             x == px[Len(px)]
         IN  IF \E k \in 1..Len(front) : front[k][1] = x
             THEN [k \in 1..Len(front) |->
                     IF front[k][1] = x
                     THEN <<x, front[k][2] + 1>> ELSE front[k]]
             ELSE Append(front, <<x, 1>>)

Keys(freq) == {freq[k][1] : k \in 1..Len(freq)}

\* HuffmanNode(char, freq); kids is <<>> for a leaf, <<left, right>> otherwise
Leaf(char, freq) == [char |-> char, freq |-> freq, kids |-> <<>>]

Merged(node1, node2) ==
    [char |-> None, freq |-> node1.freq + node2.freq, kids |-> <<node1, node2>>]

\* HuffmanNode.__lt__
Lt(a, b) == a.freq < b.freq

\* heapq._siftdown (positions are 1-based here: parent of pos is pos \div 2)
RECURSIVE SiftDown(_, _, _, _)
SiftDown(heap, newitem, startpos, pos) ==
    IF pos > startpos /\ Lt(newitem, heap[pos \div 2])
    THEN SiftDown([heap EXCEPT ![pos] = heap[pos \div 2]],
                  newitem, startpos, pos \div 2)
    ELSE [heap EXCEPT ![pos] = newitem]

\* heapq._siftup: bubble the smaller child up to a leaf, then sift newitem down
RECURSIVE SiftUp(_, _, _, _)
SiftUp(heap, newitem, startpos, pos) ==
    LET childpos == 2 * pos
        rightpos == childpos + 1
        c == IF rightpos <= Len(heap) /\ ~Lt(heap[childpos], heap[rightpos])
             THEN rightpos ELSE childpos
    IN  IF childpos <= Len(heap)
        THEN SiftUp([heap EXCEPT ![pos] = heap[c]], newitem, startpos, c)
        ELSE SiftDown(heap, newitem, startpos, pos)

\* heapq.heappush
HeapPush(heap, item) ==
    SiftDown(Append(heap, item), item, 1, Len(heap) + 1)

\* heapq.heappop on a non-empty heap: the item returned and the heap left
HeapPop(heap) ==
    LET lastelt == heap[Len(heap)]
        rest == SubSeq(heap, 1, Len(heap) - 1)
    IN  IF rest # <<>>
        THEN [item |-> rest[1], heap |-> SiftUp(rest, lastelt, 1, 1)]
        ELSE [item |-> lastelt, heap |-> <<>>]

\* _make_heap: push one leaf per key, in the dict's iteration order
RECURSIVE MakeHeap(_)
MakeHeap(freq) ==
    IF freq = <<>> THEN <<>>
    ELSE HeapPush(MakeHeap(SubSeq(freq, 1, Len(freq) - 1)),
                  Leaf(freq[Len(freq)][1], freq[Len(freq)][2]))

\* _merge_nodes
RECURSIVE MergeNodes(_)
MergeNodes(heap) ==
    IF Len(heap) > 1
    THEN LET p1 == HeapPop(heap)
             p2 == HeapPop(p1.heap)
         IN  MergeNodes(HeapPush(p2.heap, Merged(p1.item, p2.item)))
    ELSE heap

RECURSIVE LeafCodesRightNoBit(_, _)
LeafCodesRightNoBit(root, code) ==
    IF root.char # None THEN << <<root.char, code>> >>
    ELSE LeafCodesRightNoBit(root.kids[1], Append(code, 0))
         \o LeafCodesRightNoBit(root.kids[2], code)

\* the (char, code) assignments _make_codes performs, in traversal order
RECURSIVE LeafCodes(_, _)
LeafCodes(root, code) ==
    IF root.char # None THEN << <<root.char, code>> >>
    ELSE LeafCodes(root.kids[1], Append(code, 0))
         \o LeafCodes(root.kids[2], Append(code, 1))

\* a dict after the assignments d[k] = v for <<k, v>> in kvs, in order
RECURSIVE Assign(_, _)
Assign(d, kvs) ==
    IF kvs = <<>> THEN d
    ELSE Assign((kvs[1][1] :> kvs[1][2]) @@ d, Tail(kvs))

Swap(kvs) == [k \in 1..Len(kvs) |-> <<kvs[k][2], kvs[k][1]>>]

MakeCodesKeepOld(root, cs, rm) ==
    [codes |-> cs @@ Assign(<<>>, LeafCodes(root, <<>>)),
     reverse_mapping |-> Assign(rm, Swap(LeafCodes(root, <<>>)))]

\* _make_codes(root): self.codes and self.reverse_mapping afterwards
MakeCodes(root, cs, rm) ==
    [codes |-> Assign(cs, LeafCodes(root, <<>>)),
     reverse_mapping |-> Assign(rm, Swap(LeafCodes(root, <<>>)))]

\* the tree both sides build: heap[0] after _make_heap and _merge_nodes
Tree(freq) == MergeNodes(MakeHeap(freq))[1]

----------------------------------------------------------------------------
(* compress_data and decompress_data *)

\* compress_data(pixels, quantization_factor) on an instance whose fields are
\* cs and rm; heap[0] on an empty heap raises IndexError before _make_codes
CompressData(px, Q, cs, rm) ==
    LET delta == DeltaForward(Quantize(px, Q))
        freq == MakeFrequencyDict(delta)
        heap == MergeNodes(MakeHeap(freq))
    IN  IF heap = <<>>
        THEN [outcome |-> "IndexError", codes |-> cs, reverse_mapping |-> rm,
              delta |-> delta, text |-> <<>>, byte_data |-> <<>>,
              frequency |-> <<>>]
        ELSE LET mc == MakeCodes(heap[1], cs, rm)
                 text == Join([i \in 1..Len(delta) |-> mc.codes[delta[i]]])
             IN  [outcome |-> "ok", codes |-> mc.codes,
                  reverse_mapping |-> mc.reverse_mapping,
                  delta |-> delta, text |-> text,
                  byte_data |-> GetEncodedBytes(text), frequency |-> freq]

\* decompress_data lines 127-133: the decoded symbols and what is left in
\* current_code when the bits run out
RECURSIVE DecodeLoop(_, _, _, _)
DecodeLoop(text, cur, out, rm) ==
    IF text = <<>> THEN [decoded |-> out, current_code |-> cur]
    ELSE LET c == Append(cur, Head(text))
         IN  IF c \in DOMAIN rm
             THEN DecodeLoop(Tail(text), <<>>, Append(out, rm[c]), rm)
             ELSE DecodeLoop(Tail(text), c, out, rm)

DecompressDataKeepTables(bd, freq, Q, cs, rm) ==
    LET heap == MergeNodes(MakeHeap(freq))
    IN  IF heap = <<>>
        THEN [outcome |-> "IndexError", codes |-> cs, reverse_mapping |-> rm,
              text |-> <<>>, decoded |-> <<>>, current_code |-> <<>>,
              restored |-> <<>>]
        ELSE LET mc == MakeCodes(heap[1], cs, rm)
                 u == Unpack(bd)
                 d == DecodeLoop(u.text, <<>>, <<>>, mc.reverse_mapping)
             IN  IF u.outcome # "ok"
                 THEN [outcome |-> u.outcome, codes |-> mc.codes,
                       reverse_mapping |-> mc.reverse_mapping,
                       text |-> <<>>, decoded |-> <<>>,
                       current_code |-> <<>>, restored |-> <<>>]
                 ELSE [outcome |-> "ok", codes |-> mc.codes,
                       reverse_mapping |-> mc.reverse_mapping,
                       text |-> u.text, decoded |-> d.decoded,
                       current_code |-> d.current_code,
                       restored |-> Dequantize(CumSum(d.decoded), Q)]

\* decompress_data(byte_data, frequency, quantization_factor)
DecompressData(bd, freq, Q, cs, rm) ==
    LET heap == MergeNodes(MakeHeap(freq))
    IN  IF heap = <<>>
        THEN [outcome |-> "IndexError", codes |-> cs, reverse_mapping |-> rm,
              text |-> <<>>, decoded |-> <<>>, current_code |-> <<>>,
              restored |-> <<>>]
        ELSE LET mc == MakeCodes(heap[1], <<>>, <<>>)
                 u == Unpack(bd)
                 d == DecodeLoop(u.text, <<>>, <<>>, mc.reverse_mapping)
             IN  IF u.outcome # "ok"
                 THEN [outcome |-> u.outcome, codes |-> mc.codes,
                       reverse_mapping |-> mc.reverse_mapping,
                       text |-> <<>>, decoded |-> <<>>,
                       current_code |-> <<>>, restored |-> <<>>]
                 ELSE [outcome |-> "ok", codes |-> mc.codes,
                       reverse_mapping |-> mc.reverse_mapping,
                       text |-> u.text, decoded |-> d.decoded,
                       current_code |-> d.current_code,
                       restored |-> Dequantize(CumSum(d.decoded), Q)]

----------------------------------------------------------------------------
(* The callers: one HuffmanCompressor, compress then decompress, repeated *)

NoCall ==
    /\ pixels = <<>> /\ q = 1 /\ pixels_to_encode = <<>>
    /\ encoded_text = <<>> /\ byte_data = <<>> /\ frequency = <<>>
    /\ tampered = FALSE /\ unpacked = <<>> /\ decoded_deltas = <<>>
    /\ current_code = <<>> /\ restored_pixels = <<>> /\ outcome = "none"

\* HuffmanCompressor(): __init__
Init ==
    /\ codes = <<>> /\ reverse_mapping = <<>>
    /\ pc = "idle" /\ calls = 0
    /\ NoCall

\* compressor.compress_data(pixels, quantization_factor=q) inside try
Compress(S, Q) ==
    /\ pc = "idle" /\ calls < MaxCalls
    /\ \E r \in {CompressData(S, Q, codes, reverse_mapping)} :
           /\ codes' = r.codes
           /\ reverse_mapping' = r.reverse_mapping
           /\ pixels_to_encode' = r.delta
           /\ encoded_text' = r.text
           /\ byte_data' = r.byte_data
           /\ frequency' = r.frequency
           /\ outcome' = r.outcome
           /\ pc' = IF r.outcome = "ok" THEN "compressed" ELSE "raised"
    /\ pixels' = S /\ q' = Q
    /\ calls' = calls + 1
    /\ UNCHANGED <<tampered, unpacked, decoded_deltas, current_code,
                   restored_pixels>>

\* compressor.decompress_data(byte_data, frequency, quantization_factor=q)
Decompress ==
    /\ pc = "compressed"
    /\ \E r \in {DecompressData(byte_data, frequency, q, codes,
                               reverse_mapping)} :
           /\ codes' = r.codes
           /\ reverse_mapping' = r.reverse_mapping
           /\ unpacked' = r.text
           /\ decoded_deltas' = r.decoded
           /\ current_code' = r.current_code
           /\ restored_pixels' = r.restored
           /\ outcome' = r.outcome
           /\ pc' = IF r.outcome = "ok" THEN "decompressed" ELSE "raised"
    /\ UNCHANGED <<calls, pixels, q, pixels_to_encode, encoded_text,
                   byte_data, frequency, tampered>>

\* runner.py: the loop goes on to the next (image, q) with the same instance,
\* after a normal iteration as after one whose exception was caught
NextIteration ==
    /\ pc \in {"decompressed", "raised"}
    /\ pc' = "idle"
    /\ pixels' = <<>> /\ q' = 1 /\ pixels_to_encode' = <<>>
    /\ encoded_text' = <<>> /\ byte_data' = <<>> /\ frequency' = <<>>
    /\ tampered' = FALSE /\ unpacked' = <<>> /\ decoded_deltas' = <<>>
    /\ current_code' = <<>> /\ restored_pixels' = <<>> /\ outcome' = "none"
    /\ UNCHANGED <<codes, reverse_mapping, calls>>

Next ==
    \/ \E S \in SeqsUpTo(Samples, MaxLen), Q \in 0..MaxQ : Compress(S, Q)
    \/ Decompress
    \/ NextIteration

Spec == Init /\ [][Next]_vars

----------------------------------------------------------------------------
(* main.py: the stream is written to a file and read back before decoding;  *)
(* what decompress_data receives is whatever the file holds by then          *)

\* byte_data = f.read() of a file whose first stream byte was changed
RewriteHeader(h) ==
    /\ pc = "compressed" /\ ~tampered
    /\ h # byte_data[1]
    /\ byte_data' = [byte_data EXCEPT ![1] = h]
    /\ tampered' = TRUE
    /\ UNCHANGED <<codes, reverse_mapping, pc, calls, pixels, q,
                   pixels_to_encode, encoded_text, frequency, unpacked,
                   decoded_deltas, current_code, restored_pixels, outcome>>

\* byte_data = f.read() of a file cut short after n stream bytes
Truncate(n) ==
    /\ pc = "compressed" /\ ~tampered
    /\ n < Len(byte_data)
    /\ byte_data' = SubSeq(byte_data, 1, n)
    /\ tampered' = TRUE
    /\ UNCHANGED <<codes, reverse_mapping, pc, calls, pixels, q,
                   pixels_to_encode, encoded_text, frequency, unpacked,
                   decoded_deltas, current_code, restored_pixels, outcome>>

NextCorrupt ==
    \/ \E S \in SeqsUpTo(Samples, MaxLen), Q \in 0..MaxQ : Compress(S, Q)
    \/ \E h \in 0..MaxHeader : RewriteHeader(h)
    \/ \E n \in 0..(Len(byte_data) - 1) : Truncate(n)
    \/ Decompress

SpecCorrupt == Init /\ [][NextCorrupt]_vars

----------------------------------------------------------------------------
(* The bit packer on its own: _get_encoded_bytes and lines 117-125 of       *)
(* decompress_data, applied to every bit string up to MaxBits bits           *)

InitPack ==
    /\ codes = <<>> /\ reverse_mapping = <<>>
    /\ pc = "pack_input" /\ calls = 0
    /\ encoded_text \in SeqsUpTo({0, 1}, MaxBits)
    /\ pixels = <<>> /\ q = 1 /\ pixels_to_encode = <<>>
    /\ byte_data = <<>> /\ frequency = <<>>
    /\ tampered = FALSE /\ unpacked = <<>> /\ decoded_deltas = <<>>
    /\ current_code = <<>> /\ restored_pixels = <<>> /\ outcome = "none"

\* byte_data = self._get_encoded_bytes(encoded_text)
Pack ==
    /\ pc = "pack_input"
    /\ byte_data' = GetEncodedBytes(encoded_text)
    /\ pc' = "packed"
    /\ UNCHANGED <<codes, reverse_mapping, calls, pixels, q, pixels_to_encode,
                   encoded_text, frequency, tampered, unpacked,
                   decoded_deltas, current_code, restored_pixels, outcome>>

\* a buffer with the same body whose header byte another writer chose
ForeignHeader(h) ==
    /\ pc = "packed" /\ ~tampered
    /\ h # byte_data[1]
    /\ byte_data' = [byte_data EXCEPT ![1] = h]
    /\ tampered' = TRUE
    /\ UNCHANGED <<codes, reverse_mapping, pc, calls, pixels, q,
                   pixels_to_encode, encoded_text, frequency, unpacked,
                   decoded_deltas, current_code, restored_pixels, outcome>>

\* decompress_data lines 117-125
UnpackStep ==
    /\ pc = "packed"
    /\ \E u \in {Unpack(byte_data)} :
           /\ unpacked' = u.text
           /\ outcome' = u.outcome
    /\ pc' = "unpacked"
    /\ UNCHANGED <<codes, reverse_mapping, calls, pixels, q, pixels_to_encode,
                   encoded_text, byte_data, frequency, tampered,
                   decoded_deltas, current_code, restored_pixels>>

NextPack ==
    \/ Pack
    \/ \E h \in 0..MaxHeader : ForeignHeader(h)
    \/ UnpackStep

SpecPack == InitPack /\ [][NextPack]_vars

----------------------------------------------------------------------------
(* The delta transform on its own: lines 84-87 of compress_data and lines   *)
(* 136-137 of decompress_data, applied to every sample sequence              *)

InitDelta ==
    /\ codes = <<>> /\ reverse_mapping = <<>>
    /\ pc = "delta_input" /\ calls = 0
    /\ pixels \in SeqsUpTo(Samples, MaxLen)
    /\ q = 1 /\ pixels_to_encode = <<>> /\ encoded_text = <<>>
    /\ byte_data = <<>> /\ frequency = <<>>
    /\ tampered = FALSE /\ unpacked = <<>> /\ decoded_deltas = <<>>
    /\ current_code = <<>> /\ restored_pixels = <<>> /\ outcome = "none"

\* pixels_to_encode = np.diff(pixels, prepend=0).astype(np.uint8)
Forward ==
    /\ pc = "delta_input"
    /\ pixels_to_encode' = DeltaForward(pixels)
    /\ pc' = "delta_done"
    /\ UNCHANGED <<codes, reverse_mapping, calls, pixels, q, encoded_text,
                   byte_data, frequency, tampered, unpacked, decoded_deltas,
                   current_code, restored_pixels, outcome>>

\* restored_pixels = np.cumsum(delta_array, dtype=np.uint8)
Inverse ==
    /\ pc = "delta_done"
    /\ restored_pixels' = CumSum(pixels_to_encode)
    /\ pc' = "delta_restored"
    /\ UNCHANGED <<codes, reverse_mapping, calls, pixels, q, pixels_to_encode,
                   encoded_text, byte_data, frequency, tampered, unpacked,
                   decoded_deltas, current_code, outcome>>

NextDelta == Forward \/ Inverse

SpecDelta == InitDelta /\ [][NextDelta]_vars

----------------------------------------------------------------------------
(* Properties *)

Abs(x) == IF x < 0 THEN -x ELSE x

\* the bits of the bytes after the header byte
BodyBits(bd) == Join([k \in 1..(Len(bd) - 1) |-> Bin8(bd[k + 1])])

\* C1: with quantization factor 1, decompress_data applied to what
\* compress_data(S, 1) returned gives back S: same length, same value at
\* every position.
C1_LosslessRoundTrip ==
    (pc = "decompressed" /\ q = 1) => restored_pixels = pixels

\* C2: with a quantization factor Q > 1, the decoded sequence has the length
\* of S and every sample is less than Q away from the original sample.
C2_QuantizedErrorBelowQ ==
    (pc = "decompressed" /\ q > 1) =>
        /\ Len(restored_pixels) = Len(pixels)
        /\ \A i \in 1..Len(pixels) : Abs(restored_pixels[i] - pixels[i]) < q

\* C3: every code _make_codes assigns has at least one bit, also when the
\* table has a single symbol, so a buffer whose transformed symbols are all
\* the same value decodes to the symbols that were encoded.
C3_CodesNonEmpty ==
    /\ \A c \in DOMAIN codes : Len(codes[c]) >= 1
    /\ (pc = "decompressed" /\ Len(frequency) = 1) =>
           decoded_deltas = pixels_to_encode

\* C4: unpacking the bytes _get_encoded_bytes(B) produced gives back exactly
\* B, for the empty string and for lengths that are or are not multiples of 8.
C4_PackUnpackRoundTrip ==
    (pc = "unpacked" /\ ~tampered) =>
        (outcome = "ok" /\ unpacked = encoded_text)

C4_Witness ==
    /\ pc = "unpacked" /\ ~tampered
    /\ Len(encoded_text) = 8 /\ 1 \in {encoded_text[i] : i \in 1..8}
    /\ unpacked = encoded_text

\* C5 as stated: the header byte holds (8 - len(B) mod 8) mod 8, a value in
\* 0..7, exactly that many zero bits follow B, and a B whose length is a
\* multiple of 8 gets header 0 and no padding byte.
C5_HeaderIsPadMod8 ==
    (pc = "packed" /\ ~tampered) =>
        /\ byte_data[1] = (8 - (Len(encoded_text) % 8)) % 8
        /\ byte_data[1] \in 0..7
        /\ BodyBits(byte_data) = encoded_text \o Zeros(byte_data[1])
        /\ (Len(encoded_text) % 8 = 0 =>
                Len(byte_data) = 1 + Len(encoded_text) \div 8)

\* C5 amended: the header byte holds 8 - (len(B) mod 8), a value in 1..8,
\* exactly that many zero bits follow B, and a B whose length is a multiple
\* of 8 gets header 8 and one whole padding byte of zeros.
C5_HeaderIsPad1To8 ==
    (pc = "packed" /\ ~tampered) =>
        /\ byte_data[1] = 8 - (Len(encoded_text) % 8)
        /\ byte_data[1] \in 1..8
        /\ BodyBits(byte_data) = encoded_text \o Zeros(byte_data[1])
        /\ (Len(encoded_text) % 8 = 0 =>
                /\ byte_data[1] = 8
                /\ Len(byte_data) = 2 + Len(encoded_text) \div 8
                /\ byte_data[Len(byte_data)] = 0)

C5_Witness ==
    /\ pc = "packed" /\ ~tampered
    /\ Len(encoded_text) = 8
    /\ byte_data[1] = 8 /\ Len(byte_data) = 3

\* C6: for a buffer whose first byte is padLen in 0..7, the unpacked bits
\* are the bits of the remaining bytes without their last padLen bits; a
\* header of 0 removes nothing.
C6_UnpackStripsPadLen ==
    (pc = "unpacked" /\ byte_data[1] \in 0..7) =>
        unpacked = SubSeq(BodyBits(byte_data), 1,
                          Len(BodyBits(byte_data)) - byte_data[1])

\* C7: the forward delta step gives delta[0] = S[0] and
\* delta[i] = (S[i] - S[i-1]) mod 256, and the running sum mod 256 of those
\* deltas is S again, also across a wraparound such as 255 followed by 0.
C7_DeltaInvertible ==
    /\ pc \in {"delta_done", "delta_restored"} =>
           /\ Len(pixels_to_encode) = Len(pixels)
           /\ \A i \in 1..Len(pixels) :
                  pixels_to_encode[i] =
                      IF i = 1 THEN pixels[1]
                      ELSE (pixels[i] - pixels[i - 1] + 256) % 256
    /\ pc = "delta_restored" => restored_pixels = pixels

C7_Witness ==
    /\ pc = "delta_restored"
    /\ \E i \in 2..Len(pixels) :
           pixels[i - 1] = 255 /\ pixels[i] = 0 /\ pixels_to_encode[i] = 1
    /\ restored_pixels = pixels

\* C8: a call with quantization factor 0 ends in an error and returns
\* neither an encoded nor a decoded result.
C8_ZeroFactorRejected ==
    (calls > 0 /\ q = 0 /\ pc # "idle") =>
        /\ pc = "raised"
        /\ byte_data = <<>> /\ restored_pixels = <<>>

\* C9: when the bits run out while the accumulator is non-empty (it then
\* matches no codeword), decoding fails instead of returning the symbols
\* decoded so far.  Stated for tables of two or more symbols, whose
\* codewords all have at least one bit.
C9_LeftoverBitsRaise ==
    (current_code # <<>> /\ Len(frequency) >= 2) => pc # "decompressed"

\* C10: the code table decompress_data rebuilds from the frequency table
\* gives every symbol of the table the code compress_data gave it, and the
\* bits compress_data wrote are those codes.
C10_SameCodesBothSides ==
    [][(pc = "compressed" /\ pc' = "decompressed") =>
          /\ DOMAIN codes' = Keys(frequency)
          /\ \A c \in Keys(frequency) : codes[c] = codes'[c]
          /\ encoded_text =
                 Join([i \in 1..Len(pixels_to_encode) |->
                          codes'[pixels_to_encode[i]]])]_vars

C10_Witness ==
    /\ pc = "decompressed" /\ calls = 2
    /\ Len(frequency) = 3
    /\ \A k \in 1..3 : frequency[k][2] = 1
    /\ \E c \in DOMAIN codes : Len(codes[c]) = 1
    /\ \E c \in DOMAIN codes : Len(codes[c]) = 2

----------------------------------------------------------------------------
(* The loop of runner.py when a stream may also arrive cut off, so that     *)
(* decompress_data calls fail as well as compress_data calls                 *)

NextReuse ==
    \/ \E S \in SeqsUpTo(Samples, MaxLen), Q \in {1, MaxQ} : Compress(S, Q)
    \/ Truncate(0)
    \/ Decompress
    \/ NextIteration

SpecReuse == Init /\ [][NextReuse]_vars

----------------------------------------------------------------------------
(* One compress / decompress pair on a fresh instance (main.py), lossless,  *)
(* on sample sequences long enough to give trees of several levels          *)

NextTree ==
    \/ \E S \in SeqsUpTo(Samples, MaxTreeLen) : Compress(S, 1)
    \/ Decompress

SpecTree == Init /\ [][NextTree]_vars

----------------------------------------------------------------------------
(* Properties of reuse and of the code table *)

\* C11: whatever calls were made on the instance before, failed ones
\* included, a compress_data call returns the bytes, frequency table and
\* outcome it returns on a fresh instance, and a decompress_data call returns
\* the samples and outcome it returns on a fresh instance.
C11_ResultsAsOnFreshInstance ==
    [][/\ calls' = calls + 1 =>
              LET fresh == CompressData(pixels', q', <<>>, <<>>)
              IN  /\ outcome' = fresh.outcome
                  /\ byte_data' = fresh.byte_data
                  /\ frequency' = fresh.frequency
       /\ (pc = "compressed" /\ pc' \in {"decompressed", "raised"}) =>
              LET fresh == DecompressData(byte_data, frequency, q, <<>>, <<>>)
              IN  /\ outcome' = fresh.outcome
                  /\ restored_pixels' = fresh.restored]_vars

C11_Witness ==
    /\ pc = "decompressed" /\ calls >= 2
    /\ Len(frequency) = 3
    /\ restored_pixels = Dequantize(Quantize(pixels, q), q)
    /\ Len(pixels) = 3

IsPrefix(a, b) == Len(a) <= Len(b) /\ SubSeq(b, 1, Len(a)) = a

\* C12: for a table of two or more symbols the code table has exactly one
\* code per symbol of the table, the codes are pairwise distinct and none is
\* a prefix of another, and the bit-by-bit matcher of decompress_data emits
\* exactly the symbol sequence that was encoded.
C12_PrefixFreeCodes ==
    (pc \in {"compressed", "decompressed"} /\ Len(frequency) >= 2) =>
        /\ DOMAIN codes = Keys(frequency)
        /\ Cardinality(DOMAIN reverse_mapping) = Len(frequency)
        /\ \A a, b \in DOMAIN codes :
               a # b => (codes[a] # codes[b] /\ ~IsPrefix(codes[a], codes[b]))
        /\ \A c \in DOMAIN codes : reverse_mapping[codes[c]] = c
        /\ pc = "decompressed" =>
               (decoded_deltas = pixels_to_encode /\ current_code = <<>>)

C12_Witness ==
    /\ pc = "decompressed"
    /\ Len(frequency) >= 4
    /\ \E c \in DOMAIN codes : Len(codes[c]) = 3
    /\ \E c \in DOMAIN codes : Len(codes[c]) = 1
    /\ decoded_deltas = pixels_to_encode

====
